---- MODULE Spec2Model ----
(***************************************************************************)
(* Model of the score deobfuscation engine of match-service:               *)
(* FontParser (font load registry, font download, sqlite glyph cache,      *)
(* glyph -> digit translation) and the score-column path of                *)
(* MatchListParser that drives it.                                         *)
(*                                                                         *)
(* Node runs the code on one thread: every action below is one run of      *)
(* synchronous code between two suspension points (a call from outside,    *)
(* an I/O completion, the execution of one sqlite statement).              *)
(***************************************************************************)
EXTENDS Naturals, Sequences, FiniteSets

VARIABLES
    dbInitialized,  \* FontParser.__dbInitialized: "pending" | "resolved" | "rejected"
    cache,          \* FontParser.__cache: the rows of font, glyph, glyph_unicode
    fontMutexList,  \* FontParser.__fontMutexList: sequence of <<fontId, task>>; a task is named by its font id
    load,           \* per font id: the promise __loadFont returned, and what it did
    caller,         \* the calls made from outside FontParser (score cells, direct translate)
    direct,         \* direct calls of addFontToCache
    crashed,        \* the process died on an uncaught exception
    parse           \* one MatchListParser.parse call: the page, its position, its promises

vars == <<dbInitialized, cache, fontMutexList, load, caller, direct, crashed, parse>>

-----------------------------------------------------------------------------
(* Bounds and inputs *)

MaxCallers == 2   \* score cells handled by one FontParser
MaxDirect == 2    \* direct addFontToCache calls
MaxQueries == 1   \* direct translate calls
MaxCells == 2     \* rows of the match table of a page

Directs == 1..MaxDirect

\* Font ids are strings; they are modelled as sequences of characters so that
\* lower() and === are computed, not assumed.
ID_UPPER == <<"A", "B", "1", "2">>
ID_LOWER == <<"a", "b", "1", "2">>
ID_OTHER == <<"c", "d", "3", "4">>
FontIds == {ID_UPPER, ID_LOWER, ID_OTHER}

\* 57377 = 0xE021, 57378 = 0xE022 (private use area), 45 = "-"
Codepoints == {57377, 45}

\* What __parseScoreColumn reads from a score element: the data-obfuscation
\* attribute (NoFontId: attribute missing or empty) and the escaped content with
\* its leading %u removed, a string of hexadecimal digits ("E021", "2D") or the
\* empty string.
NoFontId == <<>>

ScoreElements ==
    (FontIds \X {<<"E", "0", "2", "1">>, <<"2", "D">>})
    \cup {<<NoFontId, <<"E", "0", "2", "1">>>>, <<ID_UPPER, <<>>>>}

\* A glyph table as opentype.js delivers it: font.glyphs.get(i) has a name and unicodes.
Glyph(n, us) == [name |-> n, unicodes |-> us]

DigitTokens == <<"zero", "one", "two", "three", "four", "five", "six", "seven", "eight", "nine">>

\* What the export endpoint serves for a font id.
ServerFont(fontId) ==
    IF fontId = ID_OTHER
    THEN <<Glyph(".notdef", <<>>), Glyph("three", <<57377, 57378>>)>>
    ELSE <<Glyph("seven", <<57377>>), Glyph("hyphen", <<45>>)>>

\* The font ids and glyph tables handed to direct addFontToCache calls.
StoreFontIds == {ID_UPPER, ID_LOWER}

GlyphTables ==
    {<<Glyph(DigitTokens[d + 1], <<57377>>)>> : d \in 0..9}
    \cup {ServerFont(ID_UPPER), ServerFont(ID_OTHER)}

-----------------------------------------------------------------------------
(* Strings *)

LowerChar(c) ==
    CASE c = "A" -> "a"
      [] c = "B" -> "b"
      [] c = "C" -> "c"
      [] c = "D" -> "d"
      [] OTHER -> c

\* SQL lower(x)
Lower(s) == [i \in DOMAIN s |-> LowerChar(s[i])]

-----------------------------------------------------------------------------
(* The cache database *)

EmptyCache == [font |-> {}, glyph |-> {}, glyph_unicode |-> {}]

\* INSERT INTO font (id, name) VALUES (?, ?) ON CONFLICT DO NOTHING
\* pk_font PRIMARY KEY (id)
InsertFont(db, fontId, fontName) ==
    IF \E f \in db.font : f.id = fontId
    THEN [db |-> db, error |-> FALSE]
    ELSE [db |-> [db EXCEPT !.font = @ \cup {[id |-> fontId, name |-> fontName]}],
          error |-> FALSE]

\* Variant of InsertGlyph with a bug: no ON CONFLICT clause.
InsertGlyphNoConflictClause(db, fontId, glyphIndex, glyphName) ==
    IF \/ \E g \in db.glyph :
             /\ g.font_id = fontId
             /\ (g.glyph_name = glyphName \/ g.glyph_index = glyphIndex)
       \/ ~ \E f \in db.font : f.id = fontId
    THEN [db |-> db, error |-> TRUE]
    ELSE [db |-> [db EXCEPT !.glyph = @ \cup
                    {[font_id |-> fontId, glyph_index |-> glyphIndex, glyph_name |-> glyphName]}],
          error |-> FALSE]

\* INSERT INTO glyph (font_id, glyph_index, glyph_name) VALUES (?, ?, ?) ON CONFLICT DO NOTHING
\* pk_glyph (font_id, glyph_name), un_glyph_index (font_id, glyph_index), fk_glyph_font
InsertGlyph(db, fontId, glyphIndex, glyphName) ==
    IF \E g \in db.glyph :
          /\ g.font_id = fontId
          /\ (g.glyph_name = glyphName \/ g.glyph_index = glyphIndex)
    THEN [db |-> db, error |-> FALSE]
    ELSE IF ~ \E f \in db.font : f.id = fontId
    THEN [db |-> db, error |-> TRUE]
    ELSE [db |-> [db EXCEPT !.glyph = @ \cup
                    {[font_id |-> fontId, glyph_index |-> glyphIndex, glyph_name |-> glyphName]}],
          error |-> FALSE]

\* INSERT INTO glyph_unicode (font_id, glyph_name, unicode) VALUES (?, ?, ?) ON CONFLICT DO NOTHING
\* pk_glyph_unicode (font_id, glyph_name, unicode), fk_glyph_unicode_glyph
InsertGlyphUnicode(db, fontId, glyphName, glyphUnicode) ==
    IF \E u \in db.glyph_unicode :
          u.font_id = fontId /\ u.glyph_name = glyphName /\ u.unicode = glyphUnicode
    THEN [db |-> db, error |-> FALSE]
    ELSE IF ~ \E g \in db.glyph : g.font_id = fontId /\ g.glyph_name = glyphName
    THEN [db |-> db, error |-> TRUE]
    ELSE [db |-> [db EXCEPT !.glyph_unicode = @ \cup
                    {[font_id |-> fontId, glyph_name |-> glyphName, unicode |-> glyphUnicode]}],
          error |-> FALSE]

\* SELECT 'x' FROM font WHERE lower(id) = lower(?)
FontRowExists(db, fontId) ==
    \E f \in db.font : Lower(f.id) = Lower(fontId)

\* SELECT glyph_name FROM unicode_to_glyph_name WHERE font_id = ? AND glyph_unicode = ?
\* (the view joins font, glyph and glyph_unicode); the set of glyph names of the rows
GlyphNameRows(db, fontId, unicode) ==
    {g.glyph_name : g \in
        {g \in db.glyph :
            /\ g.font_id = fontId
            /\ \E f \in db.font : f.id = g.font_id
            /\ \E u \in db.glyph_unicode :
                  /\ u.font_id = g.font_id
                  /\ u.glyph_name = g.glyph_name
                  /\ u.unicode = unicode}}

-----------------------------------------------------------------------------
(* addFontToCache: the statements it awaits, in order *)

FontStmt(fontId) == [op |-> "font", font_id |-> fontId, name |-> "n/a"]
GlyphStmt(fontId, i, n) == [op |-> "glyph", font_id |-> fontId, glyph_index |-> i, glyph_name |-> n]
UnicodeStmt(fontId, n, u) == [op |-> "glyph_unicode", font_id |-> fontId, glyph_name |-> n, unicode |-> u]

RECURSIVE GlyphStmts(_, _, _)
GlyphStmts(fontId, font, i) ==
    IF i >= Len(font)
    THEN <<>>
    ELSE <<GlyphStmt(fontId, i, font[i + 1].name)>>
         \o [j \in 1..Len(font[i + 1].unicodes) |->
                UnicodeStmt(fontId, font[i + 1].name, font[i + 1].unicodes[j])]
         \o GlyphStmts(fontId, font, i + 1)

CacheStmts(fontId, font) == <<FontStmt(fontId)>> \o GlyphStmts(fontId, font, 0)

\* __cacheFont / __cacheGlyph / __cacheGlyphUnicode: run one statement
RunStmt(db, s) ==
    CASE s.op = "font" -> InsertFont(db, s.font_id, s.name)
      [] s.op = "glyph" -> InsertGlyph(db, s.font_id, s.glyph_index, s.glyph_name)
      [] OTHER -> InsertGlyphUnicode(db, s.font_id, s.glyph_name, s.unicode)

-----------------------------------------------------------------------------
(* Glyph names *)

IsDigitName(name) == \E d \in 0..9 : DigitTokens[d + 1] = name

\* convertGlyphNameToNumber: the switch; the default branch throws
Returns(n) == [throws |-> FALSE, value |-> n]
Throws == [throws |-> TRUE, value |-> 0]

\* Variant of convertGlyphNameToNumber with a bug: two cases are swapped.
convertGlyphNameToNumberSwapped(name) ==
    CASE name = "zero" -> Returns(0)
      [] name = "one" -> Returns(1)
      [] name = "two" -> Returns(2)
      [] name = "three" -> Returns(3)
      [] name = "four" -> Returns(4)
      [] name = "five" -> Returns(5)
      [] name = "six" -> Returns(6)
      [] name = "seven" -> Returns(7)
      [] name = "eight" -> Returns(9)
      [] name = "nine" -> Returns(8)
      [] OTHER -> Throws

convertGlyphNameToNumber(name) ==
    CASE name = "zero" -> Returns(0)
      [] name = "one" -> Returns(1)
      [] name = "two" -> Returns(2)
      [] name = "three" -> Returns(3)
      [] name = "four" -> Returns(4)
      [] name = "five" -> Returns(5)
      [] name = "six" -> Returns(6)
      [] name = "seven" -> Returns(7)
      [] name = "eight" -> Returns(8)
      [] name = "nine" -> Returns(9)
      [] OTHER -> Throws

-----------------------------------------------------------------------------
(* State after construction *)

\* The promise of one __loadFont(fontId) call and the history of what it did.
\*   st       "none"      no __loadFont call yet
\*            "fetching"  awaiting fetch(fontDownloadUrl)
\*            "piping"    response.body is piped into the write stream
\*            "checking"  font parsed, awaiting isFontCached
\*            "recording" awaiting a statement of addFontToCache (pos)
\*            "resolved" | "rejected"  the promise settled
\*            "hung"      the promise can no longer settle
NoLoad ==
    [st |-> "none", pos |-> 0,
     fetches |-> 0,       \* fetch() calls
     checks |-> 0,        \* isFontCached calls
     records |-> 0,       \* addFontToCache calls
     status |-> "none",   \* while piping, status of the response: "ok" | "error"
     payload |-> "none",  \* while piping, body of the response: "font" | "garbage"
     parsed |-> FALSE,    \* loadSync was called on the downloaded file
     tmp |-> FALSE,       \* dist/test/<fontId> exists
     hit |-> "none",      \* what isFontCached resolved to: "yes" | "no"
     fail |-> "none"]     \* what went wrong: "transport" | "write" | "parse" | "init" | "store"

\* A call from outside FontParser.
\*   kind  "score"      __parseScoreColumn: loadFont(fontId).then(() => translate(fontId, cp))
\*         "noScore"    __parseScoreColumn on an element without font id or codepoint
\*         "translate"  translate(fontId, cp) called directly
\*         "isCached"   isFontCached(fontId) called directly
\*   pc    "waitLoad" | "query" | "check" | "done" | "hung" (the promise can no longer settle)
\*   res   "none" | "digit" | "GlyphNotFound" | "StoreError" | "LoadFailed" | "Malformed"
\*         | "cached" | "notCached"
\*   saw   state of the load promise when loadFont was called
\*   row   glyph name the query delivered ("none": not run, "norow": no row)
NoCaller ==
    [kind |-> "none", font |-> ID_UPPER, cp |-> 0, pc |-> "idle",
     res |-> "none", digit |-> 0, saw |-> "none", row |-> "none"]

\* A direct call addFontToCache(font, tbl).
\*   st     "none" | "running" | "resolved" | "rejected" | "hung"
\*   after  another call for the same data had resolved when this one was made
NoDirect(fontId, tbl) ==
    [st |-> "none", font |-> fontId, tbl |-> tbl, pos |-> 0, after |-> FALSE]

\* A score cell of the page: whether it has a span.score-left / span.score-right.
ScoreCells == [left : BOOLEAN, right : BOOLEAN]

ScoreCellSeqs == UNION {[1..n -> ScoreCells] : n \in 0..MaxCells}

\* Digits a score promise is fulfilled with.
ScoreDigits == {3, 7}

\* A parse(dom) call.
\*   dates    td.column-date cells that gave a start timestamp (startedValues)
\*   clubs    td.column-club cells that gave a club name (clubNames)
\*   bad      a date or club cell failed its checks, so reject was called for it
\*   cells    the td.column-score cells
\*   pc       "idle" | "awaitHome" | "awaitGuest" | "done"
\*   settled  the promise parse returned: "pending" | "resolved" | "rejected"
\*   value    the list it was resolved with
\*   home, guest  scorePromises: st "pending" | "fulfilled" | "rejected", the
\*            digit, and the score cell the promise was made for
NoParse ==
    [dates |-> 0, clubs |-> 0, bad |-> FALSE, cells |-> <<>>, pc |-> "idle",
     settled |-> "pending", value |-> <<>>, home |-> <<>>, guest |-> <<>>]

Page(d, c, b, cs) == [NoParse EXCEPT !.dates = d, !.clubs = c, !.bad = b, !.cells = cs]

Init ==
    /\ dbInitialized = "pending"
    /\ cache = EmptyCache
    /\ fontMutexList = <<>>
    /\ load = [f \in FontIds |-> NoLoad]
    /\ caller = [k \in 1..MaxCallers |-> NoCaller]
    /\ direct = [r \in Directs |-> NoDirect(ID_UPPER, ServerFont(ID_UPPER))]
    /\ crashed = FALSE
    /\ parse = NoParse

\* The store API exercised on its own: both addFontToCache calls get the same
\* font id and glyph table, drawn from the bounded inputs.
InitStore ==
    /\ dbInitialized = "pending"
    /\ cache = EmptyCache
    /\ fontMutexList = <<>>
    /\ load = [f \in FontIds |-> NoLoad]
    /\ caller = [k \in 1..MaxQueries |-> NoCaller]
    /\ \E f \in StoreFontIds, t \in GlyphTables : direct = [r \in Directs |-> NoDirect(f, t)]
    /\ crashed = FALSE
    /\ parse = NoParse

\* parse(dom) exercised on its own, on a page drawn from the bounded inputs; the
\* score promises are settled from outside.
InitParse ==
    /\ dbInitialized = "pending"
    /\ cache = EmptyCache
    /\ fontMutexList = <<>>
    /\ load = [f \in FontIds |-> NoLoad]
    /\ caller = [k \in 1..MaxCallers |-> NoCaller]
    /\ direct = [r \in Directs |-> NoDirect(ID_UPPER, ServerFont(ID_UPPER))]
    /\ crashed = FALSE
    /\ \E d \in 0..MaxCells, c \in 0..(2 * MaxCells), b \in BOOLEAN, cs \in ScoreCellSeqs :
          parse = Page(d, c, b, cs)

Callers == DOMAIN caller

-----------------------------------------------------------------------------
(* __init *)

\* Variant of AwaitDbInitialized with a bug: the operation does not wait.
AwaitDbInitializedSkipped == TRUE

\* `await this.__dbInitialized` lets the operation continue once __init resolved.
AwaitDbInitialized == dbInitialized = "resolved"

\* The constructor queues the schema statements in serialized mode before any
\* other statement can be issued, and the store runs its queue in order: a
\* statement issued later runs after them, whether they succeeded or not.
SchemaStatementsRan == dbInitialized # "pending"

\* The callback of the last schema statement (CREATE VIEW) resolves the promise.
DbInitResolve ==
    /\ ~crashed
    /\ dbInitialized = "pending"
    /\ dbInitialized' = "resolved"
    /\ UNCHANGED <<cache, fontMutexList, load, caller, direct, crashed, parse>>

\* ... or rejects it with the statement's error; the view does not exist then.
DbInitReject ==
    /\ ~crashed
    /\ dbInitialized = "pending"
    /\ dbInitialized' = "rejected"
    /\ UNCHANGED <<cache, fontMutexList, load, caller, direct, crashed, parse>>

-----------------------------------------------------------------------------
(* loadFont / __loadFont *)

\* Variants of FindMutex with a bug: no entry is ever found; the entry of a
\* failed load is skipped.
FindMutexNever(list, fontId) == FALSE
FindMutexSkipFailed(list, fontId) ==
    /\ \E i \in 1..Len(list) : list[i] = fontId
    /\ load[fontId].st # "rejected"

\* __fontMutexList.find(value => value[0] === fontId)
FindMutex(list, fontId) == \E i \in 1..Len(list) : list[i] = fontId

\* __loadFont up to its first await: createWriteStream, fetch() started.
StartLoad(l) ==
    [l EXCEPT !.st = "fetching", !.fetches = @ + 1, !.tmp = TRUE]

\* Variant of loadFont with a bug: the promise is not put into the registry.
loadFontNotRegistered(fontId) ==
    IF FindMutex(fontMutexList, fontId)
    THEN UNCHANGED <<fontMutexList, load>>
    ELSE /\ load' = [load EXCEPT ![fontId] = StartLoad(@)]
         /\ UNCHANGED fontMutexList

\* loadFont(fontId), run to its return.
loadFont(fontId) ==
    IF FindMutex(fontMutexList, fontId)
    THEN UNCHANGED <<fontMutexList, load>>
    ELSE /\ load' = [load EXCEPT ![fontId] = StartLoad(@)]
         /\ fontMutexList' = Append(fontMutexList, fontId)

\* An unhandled rejection inside an async promise executor: the promise is never
\* settled; depending on the runtime the process only warns or dies.
UnhandledOutcomes == {"hung", "crash"}

\* fetch() resolves with a response; its status is not looked at.
FetchResolve(fontId, status, payload) ==
    /\ ~crashed
    /\ load[fontId].st = "fetching"
    /\ load' = [load EXCEPT ![fontId] =
                  [@ EXCEPT !.st = "piping", !.status = status, !.payload = payload]]
    /\ UNCHANGED <<dbInitialized, cache, fontMutexList, caller, direct, crashed, parse>>

\* fetch() rejects (transport error): the await throws inside the executor.
FetchReject(fontId, outcome) ==
    /\ ~crashed
    /\ load[fontId].st = "fetching"
    /\ load' = [load EXCEPT ![fontId] = [@ EXCEPT !.st = "hung", !.fail = "transport"]]
    /\ crashed' = (outcome = "crash")
    /\ UNCHANGED <<dbInitialized, cache, fontMutexList, caller, direct, parse>>

\* response.body emits "error": reject(err).
BodyError(fontId) ==
    /\ ~crashed
    /\ load[fontId].st = "piping"
    /\ load' = [load EXCEPT ![fontId] =
                  [@ EXCEPT !.st = "rejected", !.fail = "transport",
                            !.status = "none", !.payload = "none"]]
    /\ UNCHANGED <<dbInitialized, cache, fontMutexList, caller, direct, crashed, parse>>

\* The write stream emits "error": nothing listens, the event is thrown.
WriteError(fontId) ==
    /\ ~crashed
    /\ load[fontId].st \in {"fetching", "piping"}
    /\ load' = [load EXCEPT ![fontId] = [@ EXCEPT !.fail = "write"]]
    /\ crashed' = TRUE
    /\ UNCHANGED <<dbInitialized, cache, fontMutexList, caller, direct, parse>>

\* Variant of WriteFinish with a bug: the temporary file is not removed.
WriteFinishNoUnlink(fontId) ==
    /\ ~crashed
    /\ load[fontId].st = "piping"
    /\ IF load[fontId].payload = "font"
       THEN /\ load' = [load EXCEPT ![fontId] =
                          [@ EXCEPT !.st = "checking", !.parsed = TRUE,
                                    !.checks = @ + 1,
                                    !.status = "none", !.payload = "none"]]
            /\ UNCHANGED crashed
       ELSE /\ load' = [load EXCEPT ![fontId] = [@ EXCEPT !.parsed = TRUE, !.fail = "parse"]]
            /\ crashed' = TRUE
    /\ UNCHANGED <<dbInitialized, cache, fontMutexList, caller, direct, parse>>

\* The write stream emits "finish": loadSync, unlinkSync, resolve(font); the
\* then-handler starts and calls isFontCached. loadSync throws on a body that is
\* no font, inside the event handler.
WriteFinish(fontId) ==
    /\ ~crashed
    /\ load[fontId].st = "piping"
    /\ IF load[fontId].payload = "font"
       THEN /\ load' = [load EXCEPT ![fontId] =
                          [@ EXCEPT !.st = "checking", !.parsed = TRUE, !.tmp = FALSE,
                                    !.checks = @ + 1,
                                    !.status = "none", !.payload = "none"]]
            /\ UNCHANGED crashed
       ELSE /\ load' = [load EXCEPT ![fontId] = [@ EXCEPT !.parsed = TRUE, !.fail = "parse"]]
            /\ crashed' = TRUE
    /\ UNCHANGED <<dbInitialized, cache, fontMutexList, caller, direct, parse>>

\* isFontCached: after __dbInitialized the SELECT runs; the then-handler goes on:
\* cached -> return font; not cached -> addFontToCache is called.
IsFontCachedDone(fontId) ==
    /\ ~crashed
    /\ load[fontId].st = "checking"
    /\ AwaitDbInitialized
    /\ IF FontRowExists(cache, fontId)
       THEN load' = [load EXCEPT ![fontId] = [@ EXCEPT !.st = "resolved", !.hit = "yes"]]
       ELSE load' = [load EXCEPT ![fontId] =
                       [@ EXCEPT !.st = "recording", !.hit = "no", !.pos = 1,
                                 !.records = @ + 1]]
    /\ UNCHANGED <<dbInitialized, cache, fontMutexList, caller, direct, crashed, parse>>

\* isFontCached with __dbInitialized rejected: the await throws inside the executor.
IsFontCachedInitRejected(fontId, outcome) ==
    /\ ~crashed
    /\ load[fontId].st = "checking"
    /\ dbInitialized = "rejected"
    /\ load' = [load EXCEPT ![fontId] = [@ EXCEPT !.st = "hung", !.fail = "init"]]
    /\ crashed' = (outcome = "crash")
    /\ UNCHANGED <<dbInitialized, cache, fontMutexList, caller, direct, parse>>

\* One awaited statement of addFontToCache inside __loadFont.
CacheStep(fontId) ==
    /\ ~crashed
    /\ load[fontId].st = "recording"
    /\ AwaitDbInitialized
    /\ LET stmts == CacheStmts(fontId, ServerFont(fontId))
           r == RunStmt(cache, stmts[load[fontId].pos])
       IN  /\ cache' = r.db
           /\ load' = [load EXCEPT ![fontId] =
                         IF r.error THEN [@ EXCEPT !.st = "rejected", !.fail = "store"]
                         ELSE IF @.pos = Len(stmts) THEN [@ EXCEPT !.st = "resolved"]
                         ELSE [@ EXCEPT !.pos = @ + 1]]
    /\ UNCHANGED <<dbInitialized, fontMutexList, caller, direct, crashed, parse>>

-----------------------------------------------------------------------------
(* addFontToCache called directly *)

AddFontToCache(r) ==
    /\ ~crashed
    /\ direct[r].st = "none"
    /\ IF r = 1 THEN TRUE ELSE direct[r - 1].st # "none"
    /\ direct' = [direct EXCEPT ![r] =
                    [@ EXCEPT !.st = "running", !.pos = 1,
                              !.after = \E q \in Directs :
                                           /\ direct[q].st = "resolved"
                                           /\ direct[q].font = direct[r].font
                                           /\ direct[q].tbl = direct[r].tbl]]
    /\ UNCHANGED <<dbInitialized, cache, fontMutexList, load, caller, crashed, parse>>

\* One awaited statement; an error rejects the call, the last statement resolves it.
DirectStep(r) ==
    /\ ~crashed
    /\ direct[r].st = "running"
    /\ AwaitDbInitialized
    /\ LET stmts == CacheStmts(direct[r].font, direct[r].tbl)
           res == RunStmt(cache, stmts[direct[r].pos])
       IN  /\ cache' = res.db
           /\ direct' = [direct EXCEPT ![r] =
                           IF res.error THEN [@ EXCEPT !.st = "rejected"]
                           ELSE IF @.pos = Len(stmts) THEN [@ EXCEPT !.st = "resolved"]
                           ELSE [@ EXCEPT !.pos = @ + 1]]
    /\ UNCHANGED <<dbInitialized, fontMutexList, load, caller, crashed, parse>>

\* __cacheFont with __dbInitialized rejected: the await throws inside its async
\* executor, its promise never settles and neither does the one of addFontToCache.
DirectInitRejected(r, outcome) ==
    /\ ~crashed
    /\ direct[r].st = "running"
    /\ dbInitialized = "rejected"
    /\ direct' = [direct EXCEPT ![r] = [@ EXCEPT !.st = "hung"]]
    /\ crashed' = (outcome = "crash")
    /\ UNCHANGED <<dbInitialized, cache, fontMutexList, load, caller, parse>>

-----------------------------------------------------------------------------
(* isFontCached called directly *)

\* isFontCached(fontId): the executor starts and awaits __dbInitialized.
IsFontCached(k, fontId) ==
    /\ ~crashed
    /\ caller[k].kind = "none"
    /\ IF k = 1 THEN TRUE ELSE caller[k - 1].kind # "none"
    /\ caller' = [caller EXCEPT ![k] =
                    [@ EXCEPT !.kind = "isCached", !.font = fontId, !.pc = "check"]]
    /\ UNCHANGED <<dbInitialized, cache, fontMutexList, load, direct, crashed, parse>>

\* The SELECT runs and its callback resolves the promise.
IsFontCachedCallback(k) ==
    /\ ~crashed
    /\ caller[k].pc = "check"
    /\ AwaitDbInitialized
    /\ caller' = [caller EXCEPT ![k] =
                    [@ EXCEPT !.pc = "done",
                              !.res = IF FontRowExists(cache, caller[k].font)
                                      THEN "cached" ELSE "notCached"]]
    /\ UNCHANGED <<dbInitialized, cache, fontMutexList, load, direct, crashed, parse>>

\* __dbInitialized rejected: the await throws inside the async executor.
IsFontCachedHangs(k, outcome) ==
    /\ ~crashed
    /\ caller[k].pc = "check"
    /\ dbInitialized = "rejected"
    /\ caller' = [caller EXCEPT ![k] = [@ EXCEPT !.pc = "hung"]]
    /\ crashed' = (outcome = "crash")
    /\ UNCHANGED <<dbInitialized, cache, fontMutexList, load, direct, parse>>

-----------------------------------------------------------------------------
(* __parseScoreColumn and translate *)

\* Callers are taken in order.
Free(k) == caller[k].kind = "none" /\ (IF k = 1 THEN TRUE ELSE caller[k - 1].kind # "none")

\* parseInt(glyphUnicode, 16) on a string of hexadecimal digits.
HexDigit(c) ==
    CASE c = "0" -> 0 [] c = "1" -> 1 [] c = "2" -> 2 [] c = "3" -> 3
      [] c = "4" -> 4 [] c = "5" -> 5 [] c = "6" -> 6 [] c = "7" -> 7
      [] c = "8" -> 8 [] c = "9" -> 9 [] c = "A" -> 10 [] c = "B" -> 11
      [] c = "C" -> 12 [] c = "D" -> 13 [] c = "E" -> 14 [] c = "F" -> 15

RECURSIVE ParseInt16(_)
ParseInt16(str) ==
    IF str = <<>> THEN 0
    ELSE 16 * ParseInt16(SubSeq(str, 1, Len(str) - 1)) + HexDigit(str[Len(str)])

\* Variant of HasFontAndGlyph with a bug: the codepoint string is not looked at.
HasFontOnly(fontId, glyphUnicode) == fontId # NoFontId

\* `if (fontId && glyphUnicode)`: the attribute is there and not empty, and the
\* content of the element left a non-empty codepoint string.
HasFontAndGlyph(fontId, glyphUnicode) == fontId # NoFontId /\ glyphUnicode # <<>>

\* __parseScoreColumn on a score element with the given data-obfuscation
\* attribute and codepoint string. With both, loadFont(fontId) runs to its return
\* and the then-handler waits for the promise; else a rejected promise is returned.
ParseScoreColumn(k, fontId, glyphUnicode) ==
    /\ ~crashed
    /\ Free(k)
    /\ IF HasFontAndGlyph(fontId, glyphUnicode)
       THEN /\ loadFont(fontId)
            /\ caller' = [caller EXCEPT ![k] =
                            [@ EXCEPT !.kind = "score", !.font = fontId,
                                      !.cp = ParseInt16(glyphUnicode),
                                      !.pc = "waitLoad", !.saw = load[fontId].st]]
       ELSE /\ caller' = [caller EXCEPT ![k] =
                            [@ EXCEPT !.kind = "noScore", !.font = fontId,
                                      !.pc = "done", !.res = "Malformed"]]
            /\ UNCHANGED <<fontMutexList, load>>
    /\ UNCHANGED <<dbInitialized, cache, direct, crashed, parse>>

\* Variant of LoadFulfilled with a bug: translate does not wait for the load.
LoadFulfilledEarly(fontId) == load[fontId].st \notin {"none", "rejected"}

\* When the then-handler of __parseScoreColumn runs.
LoadFulfilled(fontId) == load[fontId].st = "resolved"

\* loadFont(fontId).then(() => translate(fontId, cp)): the SELECT is queued.
ThenTranslate(k) ==
    /\ ~crashed
    /\ caller[k].kind = "score"
    /\ caller[k].pc = "waitLoad"
    /\ LoadFulfilled(caller[k].font)
    /\ caller' = [caller EXCEPT ![k] = [@ EXCEPT !.pc = "query"]]
    /\ UNCHANGED <<dbInitialized, cache, fontMutexList, load, direct, crashed, parse>>

\* The load promise is rejected: so is the promise of __parseScoreColumn.
ThenRejected(k) ==
    /\ ~crashed
    /\ caller[k].kind = "score"
    /\ caller[k].pc = "waitLoad"
    /\ load[caller[k].font].st = "rejected"
    /\ caller' = [caller EXCEPT ![k] = [@ EXCEPT !.pc = "done", !.res = "LoadFailed"]]
    /\ UNCHANGED <<dbInitialized, cache, fontMutexList, load, direct, crashed, parse>>

\* translate(fontId, cp) called directly: the SELECT is queued.
Translate(k, fontId, cp) ==
    /\ ~crashed
    /\ Free(k)
    /\ caller' = [caller EXCEPT ![k] =
                    [@ EXCEPT !.kind = "translate", !.font = fontId, !.cp = cp,
                              !.pc = "query"]]
    /\ UNCHANGED <<dbInitialized, cache, fontMutexList, load, direct, crashed, parse>>

\* Variant of QueryCallback with a bug: the missing row is not checked, so
\* row['glyph_name'] throws.
QueryCallbackNoRowCheck(error, row) ==
    IF error THEN [res |-> "StoreError", digit |-> 0]
    ELSE IF row = "norow" THEN [res |-> "throw", digit |-> 0]
    ELSE IF convertGlyphNameToNumber(row).throws THEN [res |-> "throw", digit |-> 0]
    ELSE [res |-> "digit", digit |-> convertGlyphNameToNumber(row).value]

\* The callback of queryGlyphByUnicode, given the error flag and the row of get():
\* what the promise of translate settles to; "throw" when the callback throws.
QueryCallback(error, row) ==
    IF error THEN [res |-> "StoreError", digit |-> 0]
    ELSE IF row = "norow" THEN [res |-> "GlyphNotFound", digit |-> 0]
    ELSE IF convertGlyphNameToNumber(row).throws THEN [res |-> "throw", digit |-> 0]
    ELSE [res |-> "digit", digit |-> convertGlyphNameToNumber(row).value]

\* sqlite runs the queued SELECT (after the schema statements queued by the
\* constructor) and calls back; an exception thrown by the callback is uncaught.
QueryDone(k) ==
    /\ ~crashed
    /\ caller[k].pc = "query"
    /\ SchemaStatementsRan
    /\ LET rows == GlyphNameRows(cache, caller[k].font, caller[k].cp)
       IN  \E row \in (IF dbInitialized = "rejected" \/ rows = {} THEN {"norow"} ELSE rows) :
              LET out == QueryCallback(dbInitialized = "rejected", row)
              IN  IF out.res = "throw"
                  THEN /\ caller' = [caller EXCEPT ![k] = [@ EXCEPT !.row = row]]
                       /\ crashed' = TRUE
                  ELSE /\ caller' = [caller EXCEPT ![k] =
                                       [@ EXCEPT !.pc = "done", !.row = row,
                                                 !.res = out.res, !.digit = out.digit]]
                       /\ UNCHANGED crashed
    /\ UNCHANGED <<dbInitialized, cache, fontMutexList, load, direct, parse>>

-----------------------------------------------------------------------------
(* MatchListParser.parse *)

\* The score cells that have a span of the given side, in document order.
CellsWith(cells, side) ==
    SelectSeq([i \in 1..Len(cells) |-> i],
              LAMBDA i : IF side = "home" THEN cells[i].left ELSE cells[i].right)

\* The promises pushed to scorePromises.home / .guest by the forEach over the cells.
NewPromises(cells, side) ==
    [n \in 1..Len(CellsWith(cells, side)) |->
        [st |-> "pending", digit |-> 0, cell |-> CellsWith(cells, side)[n]]]

\* resolve / reject of a promise that may be settled already.
Settle(cur, new) == IF cur = "pending" THEN new ELSE cur

AllFulfilled(ps) == \A n \in 1..Len(ps) : ps[n].st = "fulfilled"
SomeRejected(ps) == \E n \in 1..Len(ps) : ps[n].st = "rejected"

\* parse up to its first await: dates, clubs, the score promises; a reject for a
\* bad cell does not end the executor.
ParseStart ==
    /\ ~crashed
    /\ parse.pc = "idle"
    /\ parse' = [parse EXCEPT !.pc = "awaitHome",
                              !.settled = IF parse.bad THEN "rejected" ELSE "pending",
                              !.home = NewPromises(parse.cells, "home"),
                              !.guest = NewPromises(parse.cells, "guest")]
    /\ UNCHANGED <<dbInitialized, cache, fontMutexList, load, caller, direct, crashed>>

\* A promise of __parseScoreColumn is fulfilled with a digit.
ScoreFulfils(side, n, d) ==
    /\ ~crashed
    /\ parse.pc # "idle"
    /\ n \in 1..Len(parse[side])
    /\ parse[side][n].st = "pending"
    /\ parse' = [parse EXCEPT ![side][n].st = "fulfilled", ![side][n].digit = d]
    /\ UNCHANGED <<dbInitialized, cache, fontMutexList, load, caller, direct, crashed>>

\* Promise.all has put handlers on the promises of a side once parse awaits it.
Handled(side) ==
    \/ side = "home"
    \/ parse.pc = "awaitGuest"
    \/ parse.pc = "done" /\ AllFulfilled(parse.home)

\* A promise of __parseScoreColumn is rejected. A guest promise has no handler
\* while parse awaits the home promises, and never gets one when those fail.
ScoreRejects(side, n, outcome) ==
    /\ ~crashed
    /\ parse.pc # "idle"
    /\ n \in 1..Len(parse[side])
    /\ parse[side][n].st = "pending"
    /\ parse' = [parse EXCEPT ![side][n].st = "rejected"]
    /\ IF Handled(side)
       THEN outcome = "hung" /\ UNCHANGED crashed
       ELSE crashed' = (outcome = "crash")
    /\ UNCHANGED <<dbInitialized, cache, fontMutexList, load, caller, direct>>

\* await Promise.all(scorePromises.home) ends: with all digits, or with the
\* first rejection, which the catch block hands to reject.
HomeSettled ==
    /\ ~crashed
    /\ parse.pc = "awaitHome"
    /\ IF SomeRejected(parse.home)
       THEN parse' = [parse EXCEPT !.pc = "done", !.settled = Settle(@, "rejected")]
       ELSE /\ AllFulfilled(parse.home)
            /\ parse' = [parse EXCEPT !.pc = "awaitGuest"]
    /\ UNCHANGED <<dbInitialized, cache, fontMutexList, load, caller, direct, crashed>>

\* Variant of CountsMatch with a bug: the club names are not counted.
CountsMatchScoresOnly(nStarted, nHome, nGuest, nClubNames) ==
    nHome = nGuest /\ nStarted = nHome

\* The three length checks; `startedValues.length !== clubNames.length / 2` is
\* a comparison of numbers, so an odd count of club names never matches.
CountsMatch(nStarted, nHome, nGuest, nClubNames) ==
    /\ nHome = nGuest
    /\ nStarted = nHome
    /\ 2 * nStarted = nClubNames

\* The list parse builds: entry i takes date i, clubs 2i-1 and 2i, scores i.
Matches(home, guest) ==
    [i \in 1..Len(home) |->
        [started |-> i,
         home |-> [club |-> 2 * i - 1, score |-> home[i].digit],
         guest |-> [club |-> 2 * i, score |-> guest[i].digit]]]

\* await Promise.all(scorePromises.guest) ends: with the first rejection, or
\* with all digits; then the length checks and resolve(result).
GuestSettled ==
    /\ ~crashed
    /\ parse.pc = "awaitGuest"
    /\ IF SomeRejected(parse.guest)
       THEN parse' = [parse EXCEPT !.pc = "done", !.settled = Settle(@, "rejected")]
       ELSE /\ AllFulfilled(parse.guest)
            /\ IF CountsMatch(parse.dates, Len(parse.home), Len(parse.guest), parse.clubs)
               THEN parse' = [parse EXCEPT
                                !.pc = "done",
                                !.settled = Settle(@, "resolved"),
                                !.value = IF parse.settled = "pending"
                                          THEN Matches(parse.home, parse.guest) ELSE @]
               ELSE parse' = [parse EXCEPT !.pc = "done", !.settled = Settle(@, "rejected")]
    /\ UNCHANGED <<dbInitialized, cache, fontMutexList, load, caller, direct, crashed>>

-----------------------------------------------------------------------------
(* Specifications *)

Next ==
    \/ DbInitResolve
    \/ DbInitReject
    \/ \E k \in Callers, e \in ScoreElements : ParseScoreColumn(k, e[1], e[2])
    \/ \E f \in FontIds, s \in {"ok", "error"}, p \in {"font", "garbage"} : FetchResolve(f, s, p)
    \/ \E f \in FontIds, o \in UnhandledOutcomes : FetchReject(f, o)
    \/ \E f \in FontIds : BodyError(f)
    \/ \E f \in FontIds : WriteError(f)
    \/ \E f \in FontIds : WriteFinish(f)
    \/ \E f \in FontIds : IsFontCachedDone(f)
    \/ \E f \in FontIds, o \in UnhandledOutcomes : IsFontCachedInitRejected(f, o)
    \/ \E f \in FontIds : CacheStep(f)
    \/ \E k \in Callers : ThenTranslate(k)
    \/ \E k \in Callers : ThenRejected(k)
    \/ \E k \in Callers : QueryDone(k)

Spec == Init /\ [][Next]_vars

\* What the event loop does for a load once its response has arrived: the
\* stream ends, the awaited cache calls come back.
LoadStep(fontId) ==
    \/ BodyError(fontId)
    \/ WriteFinish(fontId)
    \/ IsFontCachedDone(fontId)
    \/ \E o \in UnhandledOutcomes : IsFontCachedInitRejected(fontId, o)
    \/ CacheStep(fontId)

\* ... and for a score element: the then-handlers and the query callback run.
CallerStep(k) == ThenTranslate(k) \/ ThenRejected(k) \/ QueryDone(k)

\* Spec with the scheduling of the runtime: a callback that is ready to run
\* does run, and the store finishes its schema statements. Nothing is assumed
\* about the network or about further calls.
FairSpec ==
    /\ Spec
    /\ WF_vars(DbInitResolve \/ DbInitReject)
    /\ \A f \in FontIds : WF_vars(LoadStep(f))
    /\ \A k \in 1..MaxCallers : WF_vars(CallerStep(k))

NextStore ==
    \/ DbInitResolve
    \/ DbInitReject
    \/ \E r \in Directs : AddFontToCache(r)
    \/ \E r \in Directs : DirectStep(r)
    \/ \E r \in Directs, o \in UnhandledOutcomes : DirectInitRejected(r, o)
    \/ \E k \in Callers, f \in StoreFontIds : IsFontCached(k, f)
    \/ \E k \in Callers : IsFontCachedCallback(k)
    \/ \E k \in Callers, o \in UnhandledOutcomes : IsFontCachedHangs(k, o)
    \/ \E k \in Callers, f \in StoreFontIds, c \in Codepoints : Translate(k, f, c)
    \/ \E k \in Callers : QueryDone(k)

SpecStore == InitStore /\ [][NextStore]_vars

NextParse ==
    \/ ParseStart
    \/ \E side \in {"home", "guest"}, n \in 1..MaxCells, d \in ScoreDigits :
          ScoreFulfils(side, n, d)
    \/ \E side \in {"home", "guest"}, n \in 1..MaxCells, o \in UnhandledOutcomes :
          ScoreRejects(side, n, o)
    \/ HomeSettled
    \/ GuestSettled

SpecParse == InitParse /\ [][NextParse]_vars

-----------------------------------------------------------------------------
(* Properties *)

ScoreCallers(f) == {k \in DOMAIN caller : caller[k].kind = "score" /\ caller[k].font = f}

\* C1: for every font id, whatever the number and timing of loadFont calls, at
\* most one fetch and at most one addFontToCache call happen, and as soon as
\* loadFont was called for it exactly one fetch has been started.
C1_OneFetchOneRecord ==
    \A f \in FontIds :
        /\ load[f].fetches <= 1
        /\ load[f].records <= 1
        /\ ScoreCallers(f) # {} => load[f].fetches = 1

\* Two calls for one font, the second made while the first load was in flight,
\* and the font was recorded.
C1_Witness ==
    \E f \in FontIds : \E k1, k2 \in ScoreCallers(f) :
        /\ k1 # k2
        /\ caller[k2].saw = "fetching"
        /\ load[f].st = "resolved"
        /\ load[f].records = 1

\* C2: once the load of a font id has failed, nothing of that load changes any
\* more (no new fetch, cache check or record), and every loadFont caller for it
\* is waiting for, or has got, that failure.
C2_FailureIsKept ==
    [][\A f \in FontIds :
          load[f].st = "rejected" =>
              /\ load'[f] = load[f]
              /\ \A k \in DOMAIN caller :
                    (caller'[k].kind = "score" /\ caller'[k].font = f) =>
                        \/ caller'[k].pc = "waitLoad"
                        \/ caller'[k].pc = "done" /\ caller'[k].res = "LoadFailed"]_vars

\* A call made after the load had failed got the failure.
C2_Witness ==
    \E k \in DOMAIN caller :
        /\ caller[k].kind = "score"
        /\ caller[k].saw = "rejected"
        /\ caller[k].res = "LoadFailed"
        /\ load[caller[k].font].fetches = 1

\* C3: when a score cell's translate has been issued for a font id, the load of
\* that font id has completed: fetch and cache check ran exactly once, the
\* record ran exactly once and to its end if the font was not cached, and not
\* at all otherwise.
C3_LoadBeforeResolve ==
    /\ \A f \in FontIds : load[f].checks <= 1
    /\ \A k \in DOMAIN caller :
          (caller[k].kind = "score" /\ caller[k].pc \in {"query", "done"}
              /\ caller[k].res # "LoadFailed") =>
             LET l == load[caller[k].font]
             IN  /\ l.st = "resolved"
                 /\ l.fetches = 1
                 /\ l.checks = 1
                 /\ l.hit = "yes" => l.records = 0
                 /\ l.hit = "no" =>
                       /\ l.records = 1
                       /\ l.pos = Len(CacheStmts(caller[k].font, ServerFont(caller[k].font)))

\* A score cell was decoded from a font this load recorded.
C3_Witness ==
    \E k \in DOMAIN caller :
        /\ caller[k].kind = "score"
        /\ caller[k].pc = "done"
        /\ caller[k].res = "digit"
        /\ load[caller[k].font].records = 1

\* C4: a transport error, a write failure on the temporary file or a parse
\* failure of the download rejects the load promise of that font id.
C4_FetchFailureRejects ==
    \A f \in FontIds :
        load[f].fail \in {"transport", "write", "parse"} => load[f].st = "rejected"

\* C5: the body of a response with a non-success status is not parsed; the
\* load can only fail.
C5_NonSuccessNotParsed ==
    [][\A f \in FontIds :
          (load[f].st = "piping" /\ load[f].status = "error") =>
              /\ ~load'[f].parsed
              /\ load'[f].st \in {"piping", "rejected"}]_vars

\* C6: a query that delivers a glyph name outside "zero".."nine" completes with
\* an UnsupportedGlyphName failure; the process does not die.
C6_UnsupportedNameFails ==
    \A k \in DOMAIN caller :
        (caller[k].row \notin {"none", "norow"} /\ ~IsDigitName(caller[k].row)) =>
            /\ caller[k].pc = "done"
            /\ caller[k].res = "UnsupportedGlyphName"
            /\ ~crashed

NotCached(f) == ~ \E x \in cache.font : x.id = f
NoUnicodeRow(f, c) == ~ \E u \in cache.glyph_unicode : u.font_id = f /\ u.unicode = c

RecordedAt(f, name, c) ==
    \E r \in Directs :
        /\ direct[r].st = "resolved"
        /\ direct[r].font = f
        /\ \E i \in 1..Len(direct[r].tbl) :
              /\ direct[r].tbl[i].name = name
              /\ \E j \in 1..Len(direct[r].tbl[i].unicodes) : direct[r].tbl[i].unicodes[j] = c

\* C8: for each digit d, once addFontToCache has resolved for font f with a
\* glyph named the token of d at codepoint c, a query for (f, c) completes
\* with the digit d.
C8_RoundTrip ==
    [][\A k \in DOMAIN caller : \A d \in 0..9 :
          (/\ caller[k].pc = "query"
           /\ caller'[k] # caller[k]
           /\ RecordedAt(caller[k].font, DigitTokens[d + 1], caller[k].cp)) =>
              /\ caller'[k].pc = "done"
              /\ caller'[k].res = "digit"
              /\ caller'[k].digit = d]_vars

\* translate returned 9 for a font recorded with a "nine" glyph.
C8_Witness ==
    \E k \in DOMAIN caller :
        /\ caller[k].pc = "done"
        /\ caller[k].res = "digit"
        /\ caller[k].digit = 9
        /\ RecordedAt(caller[k].font, "nine", caller[k].cp)

\* C9: once a font is recorded under id f with a digit glyph at codepoint c, a
\* query for (g, c) with g equal to f up to letter case completes with that digit.
C9_CaseInsensitiveDecode ==
    [][\A k \in DOMAIN caller : \A d \in 0..9 : \A f \in FontIds :
          (/\ caller[k].pc = "query"
           /\ caller'[k] # caller[k]
           /\ Lower(f) = Lower(caller[k].font)
           /\ RecordedAt(f, DigitTokens[d + 1], caller[k].cp)) =>
              /\ caller'[k].pc = "done"
              /\ caller'[k].res = "digit"
              /\ caller'[k].digit = d]_vars

\* C10: once addFontToCache has resolved for a font id and glyph table, no step
\* of another call with the same font id and glyph table changes a row, and no
\* such call is rejected.
C10_RecordIdempotent ==
    [][\A r \in Directs :
          (/\ direct'[r] # direct[r]
           /\ \E q \in Directs \ {r} :
                 /\ direct[q].st = "resolved"
                 /\ direct[q].font = direct[r].font
                 /\ direct[q].tbl = direct[r].tbl) =>
              /\ cache' = cache
              /\ direct'[r].st # "rejected"]_vars

\* A second call, made after the first had resolved, ran all its statements
\* on a table of several glyphs.
C10_Witness ==
    \E r \in Directs :
        /\ direct[r].after
        /\ direct[r].st = "resolved"
        /\ Len(direct[r].tbl) > 1

\* A step in which the store runs a statement of an operation: a row insert of
\* addFontToCache, the SELECT of isFontCached or the SELECT of queryGlyphByUnicode.
StatementRuns ==
    \/ cache' # cache
    \/ \E r \in Directs : direct[r].st = "running" /\ direct'[r] # direct[r]
    \/ \E k \in DOMAIN caller :
          caller[k].pc \in {"query", "check"} /\ caller'[k] # caller[k]
    \/ \E f \in FontIds :
          load[f].st \in {"checking", "recording"} /\ load'[f] # load[f]

C13_MalformedElementFails ==
    [][\A k \in DOMAIN caller :
          (/\ caller[k].kind = "none"
           /\ caller'[k].kind # "none"
           /\ caller'[k].font = NoFontId \/ caller'[k].cp = 0) =>
              /\ caller'[k].pc = "done"
              /\ caller'[k].res = "Malformed"
              /\ UNCHANGED <<fontMutexList, load, cache>>]_vars

\* Both kinds of malformed element were met and nothing has been started.
C13_Witness ==
    \E k1, k2 \in DOMAIN caller :
        /\ caller[k1].res = "Malformed" /\ caller[k1].font = NoFontId
        /\ caller[k2].res = "Malformed" /\ caller[k2].font = ID_UPPER
        /\ fontMutexList = <<>>
        /\ load[ID_UPPER].st = "none"

\* C14: with __init rejected, a loadFont that has reached its cache check has
\* completed with a failure: its promise is rejected, neither left unsettled for
\* good nor resolved.
C14_InitFailureRejects ==
    \A f \in FontIds :
        /\ load[f].fail = "init" => load[f].st = "rejected"
        /\ (dbInitialized = "rejected" /\ load[f].st = "resolved") => load[f].hit = "none"

\* How often a font id is in the registry.
Entries(f) == Cardinality({i \in 1..Len(fontMutexList) : fontMutexList[i] = f})

\* C15: the registry entry of a font id exists as soon as the first loadFont
\* call for it has returned, before its load takes any further step, and there
\* is only one; every loadFont caller of that id gets the promise of that one
\* load and so the same outcome.
C15_SharedTask ==
    \A f \in FontIds :
        /\ Entries(f) <= 1
        /\ (load[f].st # "none" \/ ScoreCallers(f) # {}) => Entries(f) = 1
        /\ \A k \in ScoreCallers(f) :
              caller[k].pc # "waitLoad" =>
                  /\ load[f].st \in {"resolved", "rejected"}
                  /\ caller[k].res = "LoadFailed" <=> load[f].st = "rejected"

\* A second call was made while the load was in flight; both got its failure.
C15_Witness ==
    \E f \in FontIds : \E k1, k2 \in ScoreCallers(f) :
        /\ caller[k1].saw = "none"
        /\ caller[k2].saw \in {"fetching", "piping"}
        /\ caller[k1].res = "LoadFailed"
        /\ caller[k2].res = "LoadFailed"
        /\ load[f].fetches = 1

\* C16: the temporary file of a load exists from before the transfer starts, it
\* is gone once the download has been parsed and so in every state in which
\* loadFont has resolved, and it is left behind when parsing the download fails.
C16_TmpFileRemoved ==
    \A f \in FontIds :
        /\ load[f].st \in {"fetching", "piping"} => load[f].tmp
        /\ load[f].st \in {"checking", "recording", "resolved"} => ~load[f].tmp
        /\ load[f].fail = "parse" => load[f].tmp

\* One load has resolved, another one failed to parse its download.
C16_Witness ==
    \E f, g \in FontIds :
        /\ load[f].st = "resolved" /\ load[f].fetches = 1 /\ ~load[f].tmp
        /\ load[g].fail = "parse" /\ load[g].tmp

\* C19: once loadFont(f) has resolved, the cache answers for exactly the id f:
\* for every codepoint the served glyph table of f gives to a digit-named glyph,
\* the query of translate(f, c) finds that glyph and a finished translate(f, c)
\* has delivered its digit, also when an id differing only in case was loaded.
C19_ResolvedFontDecodes ==
    \A f \in FontIds :
        load[f].st = "resolved" =>
            \A i \in 1..Len(ServerFont(f)) :
                LET g == ServerFont(f)[i]
                IN  IsDigitName(g.name) =>
                        \A j \in 1..Len(g.unicodes) :
                            /\ GlyphNameRows(cache, f, g.unicodes[j]) = {g.name}
                            /\ \A k \in ScoreCallers(f) :
                                  (caller[k].pc = "done" /\ caller[k].cp = g.unicodes[j]) =>
                                      /\ caller[k].res = "digit"
                                      /\ caller[k].digit = convertGlyphNameToNumber(g.name).value

\* All glyph and codepoint rows of a glyph table are in the store under fontId.
TablePresent(db, fontId, tbl) ==
    \A i \in 1..Len(tbl) :
        /\ \E g \in db.glyph : g.font_id = fontId /\ g.glyph_name = tbl[i].name
        /\ \A j \in 1..Len(tbl[i].unicodes) :
              \E u \in db.glyph_unicode :
                  /\ u.font_id = fontId
                  /\ u.glyph_name = tbl[i].name
                  /\ u.unicode = tbl[i].unicodes[j]

\* C20: isFontCached(f) answers true only when the whole glyph table recorded
\* for f (under the id its font row has) is in the store, whatever addFontToCache
\* call is in progress at that time.
C20_CachedMeansComplete ==
    [][\A k \in DOMAIN caller :
          (caller[k].pc = "check" /\ caller'[k].res = "cached") =>
              \E r \in Directs :
                  /\ Lower(direct[r].font) = Lower(caller[k].font)
                  /\ TablePresent(cache, direct[r].font, direct[r].tbl)]_vars

\* How many score cells of the page have a left / a right score.
LeftScores == Cardinality({i \in 1..Len(parse.cells) : parse.cells[i].left})
RightScores == Cardinality({i \in 1..Len(parse.cells) : parse.cells[i].right})

\* The page gives n dates, 2n clubs, n home and n guest scores, for some n, and
\* no cell failed its checks.
PageCountsAgree ==
    /\ ~parse.bad
    /\ LeftScores = parse.dates
    /\ RightScores = parse.dates
    /\ parse.clubs = 2 * parse.dates

\* C12: parse returns a list only for a page with n dates, 2n clubs, n home and
\* n guest scores whose scores were all decoded, and the list has exactly n
\* entries; once it has all scores of such a page it returns that list; for any
\* other page it returns no list, not even a partial one, and when it ends it
\* ends with a failure.
C12_Cardinality ==
    /\ parse.settled = "resolved" =>
          /\ PageCountsAgree
          /\ AllFulfilled(parse.home) /\ AllFulfilled(parse.guest)
          /\ Len(parse.value) = parse.dates
    /\ (/\ PageCountsAgree
        /\ parse.pc = "done"
        /\ AllFulfilled(parse.home) /\ AllFulfilled(parse.guest)) =>
          parse.settled = "resolved"
    /\ parse.settled # "resolved" => parse.value = <<>>
    /\ (~PageCountsAgree /\ parse.pc # "idle") =>
          /\ parse.settled # "resolved"
          /\ parse.pc = "done" => parse.settled = "rejected"

\* A page of MaxCells matches was parsed to its end.
C12_Witness ==
    /\ parse.settled = "resolved"
    /\ parse.dates = MaxCells
    /\ Len(parse.value) = MaxCells

\* C18: when __init has resolved and the download of a font id has arrived and
\* was parsed, its loadFont promise is eventually resolved, whatever other font
\* ids and callers are under way.
C18_GoodLoadCompletes ==
    \A f \in FontIds :
        (load[f].st = "checking" /\ dbInitialized = "resolved") ~> (load[f].st = "resolved")

\* C17: nothing ends a load whose fetch never completes: as long as it is
\* fetching, all loadFont callers of that font id wait; and a load of another
\* font id whose download has arrived and was parsed is settled meanwhile.
C17_StuckFetchBlocksOnlyItself ==
    /\ [](\A f \in FontIds :
            load[f].st = "fetching" =>
                \A k \in ScoreCallers(f) : caller[k].pc = "waitLoad")
    /\ \A f, g \in FontIds :
          f # g =>
            ((load[f].st = "fetching" /\ load[g].st = "checking")
                ~> (load[f].st # "fetching" \/ load[g].st \in {"resolved", "rejected"}))

\* The digit decoded for the given side of score cell i, if that cell has one.
DecodedFor(side, i) ==
    {parse[side][n].digit : n \in {m \in 1..Len(parse[side]) : parse[side][m].cell = i}}

\* C21: in a list parse returns, entry i has date i and clubs 2i-1 and 2i, and
\* its home and guest scores are the digits decoded from the left and the right
\* score of score cell i, in whatever order the score promises were settled
\* and whichever score cells have a left or a right score.
C21_ScoresAligned ==
    parse.settled = "resolved" =>
        \A i \in 1..Len(parse.value) :
            /\ parse.value[i].started = i
            /\ parse.value[i].home.club = 2 * i - 1
            /\ parse.value[i].guest.club = 2 * i
            /\ DecodedFor("home", i) = {parse.value[i].home.score}
            /\ DecodedFor("guest", i) = {parse.value[i].guest.score}

====
